---- MODULE Spec2Model ----
(***************************************************************************)
(* The USB video stream of CameraMonitor: the UsbVideoStreamer object      *)
(* (UsbVideoStreamer.cpp/.h), the JNI entry points that own the single     *)
(* process-wide instance (UsbVideoNativeLibrary.cpp), the libuvc driver    *)
(* thread that delivers frames to captureFrameCallback, and the render     *)
(* thread that calls bindFrameToTextures.                                  *)
(*                                                                         *)
(* Three threads act on the object: the host (control) thread, the driver  *)
(* callback thread and the render thread.  The callback and the bind are   *)
(* split at the acquisition of frameMutex_; everything a handler does      *)
(* while it holds the lock is one step.                                    *)
(*                                                                         *)
(* libuvc itself is not part of the sources.  Its calls are modelled at    *)
(* their call sites by the result codes of the library the program links:  *)
(* uvc_stream_open_ctrl answers UVC_ERROR_BUSY when the interface already  *)
(* has an open stream, uvc_stream_start answers UVC_ERROR_BUSY on a        *)
(* running stream, uvc_stream_stop answers UVC_ERROR_INVALID_PARAM on a    *)
(* stream that is not running and otherwise joins the callback thread      *)
(* before it returns.  Every call may also fail for a device reason,       *)
(* which is an input of the action that makes the call.                    *)
(***************************************************************************)
EXTENDS Integers, FiniteSets, Sequences, TLC

(* ---------------------------------------------------------------- bounds *)

\* Frame widths range over 2..MaxW; heights are fixed to 2.
MaxW == 3
\* The clock stops advancing at MaxTime seconds.
MaxTime == 2
\* No frame is delivered once the window counter has reached MaxFrames.
MaxFrames == 2

(* ------------------------------------------------------ program constants *)

\* The stats window, "1s".
OneSecond == 1
\* currentFps and fps are uint8_t.
Uint8Mod == 256

Widths == 2..MaxW
Heights == {2}
FpsSet == {30}

\* uvc_frame_format tags: the three the converter knows, one it does not
\* (UYVY), and the value of a value-initialised tag (UNKNOWN = 0).
WireFormats == {"NV12", "YUYV", "MJPEG", "UYVY"}
FORMAT_UNKNOWN == "UNKNOWN"

\* The bytes of a frame are named by a token; 0 names zero-filled bytes.
DataTokens == {1, 2}

NULL == 0

\* A std::vector<uint8_t>: its size and the token of the bytes it holds.
EmptyVec == [size |-> 0, data |-> 0]
\* A resize that leaves the vector at the size it had.
Resize_keepsSize(v, n) == v

\* vector::resize keeps the bytes it has (the common prefix).
Resize(v, n) == [size |-> n, data |-> v.data]

VARIABLES
    \* UsbVideoNativeLibrary.cpp
    uvcStreamer_,               \* TRUE iff the unique_ptr is non-null
    \* UsbVideoStreamer fields
    uvcContext_,                \* TRUE iff non-null
    deviceHandle_,              \* TRUE iff non-null
    isStreamControlNegotiated_,
    streamHandle_,              \* NULL or the id of the driver's stream
    width_, height_,
    captureFrameWidth_, captureFrameHeight_, captureFrameFps_,
    captureFrameFormat_,
    stats_,                     \* [currentFps, fps, t0]
    frameMutex_,                \* "free", "cb" or "bind": who holds it
    frameUpdated_,
    plane0_, plane1_, rgbaBuffer_,
    \* libuvc
    drvSessions,                \* streams opened on the device so far
    drvRunning,                 \* strmh->running
    drvStopped,                 \* the stream was running and has been stopped
    drvDevOpen,                 \* the device handle uvc_wrap made is open
    drvCloses,                  \* uvc_close calls on the handle of this streamer
    \* threads
    hostPc,                     \* "idle", "stopping", "closing"
    cbPc,                       \* "idle", "waiting", "locked"
    bindPc,                     \* "idle", "waiting", "locked"
    now,                        \* the steady clock, in seconds
    \* what the last call of each thread did
    last,                       \* host: [op, ret, calls]
    bindLast,                   \* render: [ret, upload]
    cbSinceBind                 \* a callback completed since the last bind that returned true

streamerVars == <<uvcContext_, deviceHandle_, isStreamControlNegotiated_,
                  streamHandle_, captureFrameWidth_, captureFrameHeight_,
                  captureFrameFps_, captureFrameFormat_>>
bufferVars == <<plane0_, plane1_, rgbaBuffer_>>
frameVars == <<width_, height_, frameUpdated_, plane0_, plane1_, rgbaBuffer_>>
drvVars == <<drvSessions, drvRunning, drvStopped>>
devVars == <<drvDevOpen, drvCloses>>

vars == <<uvcStreamer_, uvcContext_, deviceHandle_, isStreamControlNegotiated_,
          streamHandle_, width_, height_, captureFrameWidth_, captureFrameHeight_,
          captureFrameFps_, captureFrameFormat_, stats_, frameMutex_, frameUpdated_,
          plane0_, plane1_, rgbaBuffer_, drvSessions, drvRunning,
          drvStopped, drvDevOpen, drvCloses, hostPc, cbPc, bindPc, now, last,
          bindLast, cbSinceBind>>

(* ------------------------------------------------------- lifecycle state *)

\* The lifecycle state of section 4.1, read off the object and the driver.
State ==
    IF ~uvcStreamer_ THEN "Closed"
    ELSE IF ~isStreamControlNegotiated_ THEN "NegotiationFailed"
    ELSE IF streamHandle_ = NULL THEN "Negotiated"
    ELSE IF drvRunning THEN "Streaming"
    ELSE IF drvStopped THEN "Stopped"
    ELSE "Configured"

Frames ==
    [width : Widths, height : Heights, format : {"NV12", "YUYV", "UYVY"},
     data : DataTokens, allocOk : {TRUE}, decodeOk : {TRUE}]
    \cup
    [width : Widths, height : Heights, format : {"MJPEG"},
     data : DataTokens, allocOk : {TRUE}, decodeOk : BOOLEAN]
    \cup
    [width : Widths, height : Heights, format : {"MJPEG"},
     data : DataTokens, allocOk : {FALSE}, decodeOk : {TRUE}]

NoUpload == [kind |-> "none", plane0 |-> 0, plane1 |-> 0, rgba |-> 0]
NoCall == [op |-> "none", ret |-> FALSE, calls |-> {}]
NoBind == [ret |-> FALSE, upload |-> NoUpload]
NoStats == [currentFps |-> 0, fps |-> 0, t0 |-> 0]

(* ---------------------------------------------------------------- libuvc *)

\* uvc_stream_open_ctrl(deviceHandle_, &streamHandle_, &streamCtrl_): a second
\* stream on the same interface is refused and *strmhp is written on success only.
uvc_stream_open_ctrl(handle, sessions, devOk) ==
    IF sessions > 0
    THEN [res |-> "UVC_ERROR_BUSY", handle |-> handle, sessions |-> sessions]
    ELSE IF devOk
    THEN [res |-> "UVC_SUCCESS", handle |-> sessions + 1, sessions |-> sessions + 1]
    ELSE [res |-> "UVC_ERROR_IO", handle |-> handle, sessions |-> sessions]

\* uvc_stream_start(streamHandle_, captureFrameCallback, this, 0)
uvc_stream_start(devOk) ==
    IF drvRunning
    THEN [res |-> "UVC_ERROR_BUSY", running |-> drvRunning,
          stopped |-> drvStopped]
    ELSE IF devOk
    THEN [res |-> "UVC_SUCCESS", running |-> TRUE, stopped |-> FALSE]
    ELSE [res |-> "UVC_ERROR_IO", running |-> FALSE, stopped |-> drvStopped]

\* uvc_stream_stop(streamHandle_)
uvc_stream_stop ==
    IF ~drvRunning
    THEN [res |-> "UVC_ERROR_INVALID_PARAM", running |-> drvRunning,
          stopped |-> drvStopped]
    ELSE [res |-> "UVC_SUCCESS", running |-> FALSE, stopped |-> TRUE]

(* ------------------------------------------------------- UsbVideoStreamer *)

\* How the constructor can end: uvc_init fails, uvc_wrap fails,
\* uvc_get_stream_ctrl_format_size fails, or negotiation succeeds.
CtorOutcomes == {"init_failed", "wrap_failed", "negotiation_failed", "ok"}

\* UsbVideoStreamer::UsbVideoStreamer: the fields after construction.
UsbVideoStreamer(w, h, fps, fmt, outcome) ==
    /\ width_' = w
    /\ height_' = h
    /\ uvcContext_' = (outcome # "init_failed")
    /\ deviceHandle_' = (outcome \notin {"init_failed", "wrap_failed"})
    /\ isStreamControlNegotiated_' = (outcome = "ok")
    /\ captureFrameWidth_' = IF outcome = "ok" THEN w ELSE 0
    /\ captureFrameHeight_' = IF outcome = "ok" THEN h ELSE 0
    /\ captureFrameFps_' = IF outcome = "ok" THEN fps ELSE 0
    /\ captureFrameFormat_' = IF outcome = "ok" THEN fmt ELSE FORMAT_UNKNOWN
    /\ plane0_' = IF outcome # "ok" THEN EmptyVec
                  ELSE IF fmt = "NV12" THEN Resize(EmptyVec, w * h)
                  ELSE IF fmt = "YUYV" THEN Resize(EmptyVec, w * h * 2)
                  ELSE IF fmt = "MJPEG" THEN Resize(EmptyVec, w * h * 4)
                  ELSE EmptyVec
    /\ plane1_' = IF outcome = "ok" /\ fmt = "NV12"
                  THEN Resize(EmptyVec, (w * h) \div 2)
                  ELSE EmptyVec
    /\ rgbaBuffer_' = EmptyVec
    /\ frameUpdated_' = FALSE
    /\ frameMutex_' = "free"
    /\ stats_' = [currentFps |-> 0, fps |-> 0, t0 |-> now]
    /\ drvDevOpen' = (outcome \notin {"init_failed", "wrap_failed"})
    /\ drvCloses' = 0

\* UsbVideoStreamer::~UsbVideoStreamer never calling uvc_close.
destructor_leaks ==
    [devOpen |-> drvDevOpen, closes |-> drvCloses]

\* UsbVideoStreamer::~UsbVideoStreamer: uvc_close on a non-null deviceHandle_;
\* what becomes of the driver's device handle.
destructor ==
    IF deviceHandle_
    THEN [devOpen |-> FALSE, closes |-> drvCloses + 1]
    ELSE [devOpen |-> drvDevOpen, closes |-> drvCloses]

\* configureOutput without the test of isStreamControlNegotiated_.
configureOutput_noGuard(negotiated, handle, sessions, devOk) ==
    LET r == uvc_stream_open_ctrl(handle, sessions, devOk)
    IN  [ret |-> (r.res = "UVC_SUCCESS"), handle |-> r.handle,
         sessions |-> r.sessions, calls |-> {"uvc_stream_open_ctrl"}]

\* configureOutput clearing streamHandle_ when the driver refuses.
configureOutput_resetsHandle(negotiated, handle, sessions, devOk) ==
    IF ~negotiated
    THEN [ret |-> FALSE, handle |-> handle, sessions |-> sessions, calls |-> {}]
    ELSE LET r == uvc_stream_open_ctrl(handle, sessions, devOk)
         IN  [ret |-> (r.res = "UVC_SUCCESS"),
              handle |-> IF r.res = "UVC_SUCCESS" THEN r.handle ELSE NULL,
              sessions |-> r.sessions, calls |-> {"uvc_stream_open_ctrl"}]

\* UsbVideoStreamer::configureOutput, on an object whose negotiation flag and
\* stream handle are given; sessions is the driver's count of open streams.
configureOutput(negotiated, handle, sessions, devOk) ==
    IF ~negotiated
    THEN [ret |-> FALSE, handle |-> handle, sessions |-> sessions, calls |-> {}]
    ELSE LET r == uvc_stream_open_ctrl(handle, sessions, devOk)
         IN  [ret |-> (r.res = "UVC_SUCCESS"), handle |-> r.handle,
              sessions |-> r.sessions, calls |-> {"uvc_stream_open_ctrl"}]

\* start without the test of streamHandle_.
start_noGuard(devOk) ==
    LET r == uvc_stream_start(devOk)
    IN  [ret |-> (r.res = "UVC_SUCCESS"), running |-> r.running,
         stopped |-> r.stopped, calls |-> {"uvc_stream_start"}]

\* UsbVideoStreamer::start
start(devOk) ==
    IF streamHandle_ = NULL
    THEN [ret |-> FALSE, running |-> drvRunning, stopped |-> drvStopped,
          calls |-> {}]
    ELSE LET r == uvc_stream_start(devOk)
         IN  [ret |-> (r.res = "UVC_SUCCESS"), running |-> r.running,
              stopped |-> r.stopped,
              calls |-> {"uvc_stream_start"}]

\* stop reporting success on a running stream without asking the driver to
\* end it.
stop_noDriverStop ==
    [ret |-> (streamHandle_ # NULL /\ drvRunning), running |-> drvRunning,
     stopped |-> drvStopped, calls |-> {}]

\* stop reporting success whenever it reached the driver.
stop_ignoresResult ==
    IF streamHandle_ = NULL
    THEN [ret |-> FALSE, running |-> drvRunning, stopped |-> drvStopped,
          calls |-> {}]
    ELSE LET r == uvc_stream_stop
         IN  [ret |-> TRUE, running |-> r.running, stopped |-> r.stopped,
              calls |-> {"uvc_stream_stop"}]

\* UsbVideoStreamer::stop
stop ==
    IF streamHandle_ = NULL
    THEN [ret |-> FALSE, running |-> drvRunning, stopped |-> drvStopped,
          calls |-> {}]
    ELSE LET r == uvc_stream_stop
         IN  [ret |-> (r.res = "UVC_SUCCESS"), running |-> r.running,
              stopped |-> r.stopped,
              calls |-> {"uvc_stream_stop"}]

\* UsbVideoStreamer::getFormat
getFormat ==
    CASE captureFrameFormat_ = "NV12" -> 1
      [] captureFrameFormat_ = "YUYV" -> 2
      [] OTHER -> 0

\* UsbVideoStreamerStats::recordFrame at clock reading t
recordFrame(st, t) ==
    LET c == (st.currentFps + 1) % Uint8Mod
    IN  IF t - st.t0 >= OneSecond
        THEN [currentFps |-> 0, fps |-> c, t0 |-> t]
        ELSE [st EXCEPT !.currentFps = c]

\* A callback that marks the buffers dirty only when it has handled a
\* supported format.
captureFrameCallback_marksSupportedOnly(frame) ==
    LET width == frame.width
        height == frame.height
        rgba == IF rgbaBuffer_.size # width * height * 4
                THEN Resize(rgbaBuffer_, width * height * 4)
                ELSE rgbaBuffer_
        y_size == width * height
        uv_size == y_size \div 2
    IN  /\ width_' = width
        /\ height_' = height
        /\ CASE frame.format = "NV12" ->
                  /\ plane0_' = [size |-> y_size, data |-> frame.data]
                  /\ plane1_' = [size |-> uv_size, data |-> frame.data]
                  /\ rgbaBuffer_' = rgba
             [] frame.format = "YUYV" ->
                  /\ plane0_' = [size |-> width * height * 2, data |-> frame.data]
                  /\ plane1_' = plane1_
                  /\ rgbaBuffer_' = rgba
             [] frame.format = "MJPEG" ->
                  /\ plane0_' = plane0_
                  /\ plane1_' = plane1_
                  /\ rgbaBuffer_' = IF frame.allocOk /\ frame.decodeOk
                                    THEN [size |-> rgba.size, data |-> frame.data]
                                    ELSE rgba
             [] OTHER ->
                  /\ plane0_' = plane0_
                  /\ plane1_' = plane1_
                  /\ rgbaBuffer_' = rgba
        /\ frameUpdated_' = (frameUpdated_ \/ frame.format \in {"NV12", "YUYV", "MJPEG"})
        /\ stats_' = recordFrame(stats_, now)

\* The body of captureFrameCallback, run with frameMutex_ held.
captureFrameCallback(frame) ==
    LET width == frame.width
        height == frame.height
        rgba == IF rgbaBuffer_.size # width * height * 4
                THEN Resize(rgbaBuffer_, width * height * 4)
                ELSE rgbaBuffer_
        y_size == width * height
        uv_size == y_size \div 2
    IN  /\ width_' = width
        /\ height_' = height
        /\ CASE frame.format = "NV12" ->
                  /\ plane0_' = [size |-> y_size, data |-> frame.data]
                  /\ plane1_' = [size |-> uv_size, data |-> frame.data]
                  /\ rgbaBuffer_' = rgba
             [] frame.format = "YUYV" ->
                  /\ plane0_' = [size |-> width * height * 2, data |-> frame.data]
                  /\ plane1_' = plane1_
                  /\ rgbaBuffer_' = rgba
             [] frame.format = "MJPEG" ->
                  /\ plane0_' = plane0_
                  /\ plane1_' = plane1_
                  /\ rgbaBuffer_' = IF frame.allocOk /\ frame.decodeOk
                                    THEN [size |-> rgba.size, data |-> frame.data]
                                    ELSE rgba
             [] OTHER ->
                  /\ plane0_' = plane0_
                  /\ plane1_' = plane1_
                  /\ rgbaBuffer_' = rgba
        /\ frameUpdated_' = TRUE
        /\ stats_' = recordFrame(stats_, now)

\* An upload that reads a YUYV plane as width_ RGBA texels per row instead of
\* width_ / 2.
textureUpload_fullWidthYUYV ==
    IF getFormat = 1
    THEN [kind |-> "NV12", plane0 |-> width_ * height_,
          plane1 |-> (width_ \div 2) * (height_ \div 2) * 2, rgba |-> 0]
    ELSE IF getFormat = 2
    THEN [kind |-> "YUYV", plane0 |-> width_ * height_ * 4,
          plane1 |-> 0, rgba |-> 0]
    ELSE [kind |-> "RGBA", plane0 |-> 0, plane1 |-> 0,
          rgba |-> width_ * height_ * 4]

\* The glTexImage2D calls of bindFrameToTextures: the layout getFormat()
\* selects and the bytes read from each buffer.
textureUpload ==
    IF getFormat = 1
    THEN [kind |-> "NV12", plane0 |-> width_ * height_,
          plane1 |-> (width_ \div 2) * (height_ \div 2) * 2, rgba |-> 0]
    ELSE IF getFormat = 2
    THEN [kind |-> "YUYV", plane0 |-> (width_ \div 2) * height_ * 4,
          plane1 |-> 0, rgba |-> 0]
    ELSE [kind |-> "RGBA", plane0 |-> 0, plane1 |-> 0,
          rgba |-> width_ * height_ * 4]

\* bindFrameToTextures without "frameUpdated_ = false".
bindFrameToTextures_keepsDirty ==
    IF ~frameUpdated_
    THEN [ret |-> FALSE, upload |-> NoUpload, frameUpdated |-> frameUpdated_]
    ELSE [ret |-> TRUE, upload |-> textureUpload, frameUpdated |-> TRUE]

\* The body of bindFrameToTextures, run with frameMutex_ held: the return
\* value, the bytes each glTexImage2D reads, and the dirty flag afterwards.
bindFrameToTextures ==
    IF ~frameUpdated_
    THEN [ret |-> FALSE, upload |-> NoUpload, frameUpdated |-> frameUpdated_]
    ELSE [ret |-> TRUE, upload |-> textureUpload, frameUpdated |-> FALSE]

(* ------------------------------------------------------ the host thread *)

\* connectUsbVideoStreamingNative: constructs the streamer and configures its
\* output when there is none; returns false when there is one.
connectUsbVideoStreamingNative(w, h, fps, fmt, outcome, devOk) ==
    /\ hostPc = "idle"
    /\ IF ~uvcStreamer_
       THEN LET c == configureOutput(outcome = "ok", NULL, 0, devOk)
            IN  /\ uvcStreamer_' = TRUE
                /\ UsbVideoStreamer(w, h, fps, fmt, outcome)
                /\ streamHandle_' = c.handle
                /\ drvSessions' = c.sessions
                /\ drvRunning' = FALSE
                /\ drvStopped' = FALSE
                /\ cbSinceBind' = FALSE
                /\ last' = [op |-> "connect", ret |-> c.ret,
                            calls |-> c.calls]
       ELSE /\ last' = [op |-> "connect", ret |-> FALSE,
                        calls |-> {}]
            /\ UNCHANGED <<uvcStreamer_, devVars, streamerVars, frameVars, stats_,
                           frameMutex_, drvVars, cbSinceBind>>
    /\ UNCHANGED <<hostPc, cbPc, bindPc, now, bindLast>>

\* A direct call of the public method configureOutput on the live streamer.
callConfigureOutput(devOk) ==
    /\ hostPc = "idle"
    /\ uvcStreamer_
    /\ LET c == configureOutput(isStreamControlNegotiated_, streamHandle_,
                                drvSessions, devOk)
       IN  /\ streamHandle_' = c.handle
           /\ drvSessions' = c.sessions
           /\ last' = [op |-> "configureOutput", ret |-> c.ret,
                       calls |-> c.calls]
    /\ UNCHANGED <<uvcStreamer_, devVars, uvcContext_, deviceHandle_,
                   isStreamControlNegotiated_, captureFrameWidth_,
                   captureFrameHeight_, captureFrameFps_, captureFrameFormat_,
                   frameVars, stats_, frameMutex_, drvRunning, drvStopped,
                   hostPc, cbPc, bindPc, now, bindLast, cbSinceBind>>

\* startUsbVideoStreamingNative
startUsbVideoStreamingNative(devOk) ==
    /\ hostPc = "idle"
    /\ IF uvcStreamer_
       THEN LET r == start(devOk)
            IN  /\ drvRunning' = r.running
                /\ drvStopped' = r.stopped
                /\ last' = [op |-> "start", ret |-> r.ret,
                            calls |-> r.calls]
       ELSE /\ last' = [op |-> "start", ret |-> FALSE,
                        calls |-> {}]
            /\ UNCHANGED <<drvRunning, drvStopped>>
    /\ UNCHANGED <<uvcStreamer_, devVars, streamerVars, frameVars, stats_, frameMutex_,
                   drvSessions, hostPc, cbPc, bindPc, now, bindLast,
                   cbSinceBind>>

\* stopUsbVideoStreamingNative, up to the point where uvc_stream_stop has
\* cleared the running flag; a successful uvc_stream_stop then joins the
\* callback thread (stopReturn).
stopUsbVideoStreamingNative ==
    /\ hostPc = "idle"
    /\ IF uvcStreamer_
       THEN LET r == stop
            IN  /\ drvRunning' = r.running
                /\ drvStopped' = r.stopped
                /\ hostPc' = IF r.ret THEN "stopping" ELSE "idle"
                /\ last' = [op |-> "stop", ret |-> r.ret,
                            calls |-> r.calls]
       ELSE /\ last' = [op |-> "stop", ret |-> FALSE,
                        calls |-> {}]
            /\ UNCHANGED <<drvRunning, drvStopped, hostPc>>
    /\ UNCHANGED <<uvcStreamer_, devVars, streamerVars, frameVars, stats_, frameMutex_,
                   drvSessions, cbPc, bindPc, now, bindLast,
                   cbSinceBind>>

\* streamingStatsSummaryString: formats captureFrameWidth_, captureFrameHeight_
\* and stats_.fps of the live streamer (a const method); the text is empty
\* when there is no streamer.
streamingStatsSummaryString ==
    /\ hostPc = "idle"
    /\ last' = [op |-> "stats", ret |-> uvcStreamer_, calls |-> {}]
    /\ UNCHANGED <<uvcStreamer_, devVars, streamerVars, frameVars, stats_, frameMutex_,
                   drvVars, hostPc, cbPc, bindPc, now, bindLast, cbSinceBind>>

\* uvc_stream_stop returns once the callback thread has ended.
stopReturn ==
    /\ hostPc = "stopping"
    /\ cbPc = "idle"
    /\ hostPc' = "idle"
    /\ UNCHANGED <<uvcStreamer_, devVars, streamerVars, frameVars, stats_, frameMutex_,
                   drvVars, cbPc, bindPc, now, last, bindLast,
                   cbSinceBind>>

\* A disconnect that runs the destructor whether or not a streamer exists.
disconnectUsbVideoStreamingNative_noNullCheck ==
    /\ hostPc = "idle"
    /\ bindPc = "idle"
    /\ hostPc' = "closing"
    /\ drvRunning' = FALSE
    /\ last' = [op |-> "disconnect", ret |-> FALSE, calls |-> {"uvc_close"}]
    /\ UNCHANGED <<uvcStreamer_, devVars, streamerVars, frameVars, stats_,
                   frameMutex_, drvSessions, drvStopped, cbPc, bindPc, now,
                   bindLast, cbSinceBind>>

\* disconnectUsbVideoStreamingNative: uvcStreamer_ = nullptr.  With a streamer
\* the destructor runs: uvc_close ends streaming (closing) and joins the
\* callback thread, then the object goes away (disconnectReturn).
disconnectUsbVideoStreamingNative ==
    /\ hostPc = "idle"
    /\ bindPc = "idle"
    /\ IF uvcStreamer_
       THEN /\ hostPc' = "closing"
            /\ drvRunning' = FALSE
       ELSE UNCHANGED <<hostPc, drvRunning>>
    /\ last' = [op |-> "disconnect", ret |-> FALSE, calls |->
                  IF uvcStreamer_ /\ deviceHandle_ THEN {"uvc_close"} ELSE {}]
    /\ UNCHANGED <<uvcStreamer_, devVars, streamerVars, frameVars, stats_, frameMutex_,
                   drvSessions, drvStopped, cbPc, bindPc, now, bindLast,
                   cbSinceBind>>

\* UsbVideoStreamer::~UsbVideoStreamer completes and the pointer is null.
disconnectReturn ==
    /\ hostPc = "closing"
    /\ cbPc = "idle"
    /\ hostPc' = "idle"
    /\ uvcStreamer_' = FALSE
    /\ uvcContext_' = FALSE
    /\ deviceHandle_' = FALSE
    /\ isStreamControlNegotiated_' = FALSE
    /\ streamHandle_' = NULL
    /\ width_' = 0
    /\ height_' = 0
    /\ captureFrameWidth_' = 0
    /\ captureFrameHeight_' = 0
    /\ captureFrameFps_' = 0
    /\ captureFrameFormat_' = FORMAT_UNKNOWN
    /\ stats_' = NoStats
    /\ frameMutex_' = "free"
    /\ frameUpdated_' = FALSE
    /\ plane0_' = EmptyVec
    /\ plane1_' = EmptyVec
    /\ rgbaBuffer_' = EmptyVec
    /\ drvSessions' = 0
    /\ drvRunning' = FALSE
    /\ drvStopped' = FALSE
    /\ drvDevOpen' = destructor.devOpen
    /\ drvCloses' = destructor.closes
    /\ cbSinceBind' = FALSE
    /\ bindLast' = NoBind
    /\ UNCHANGED <<cbPc, bindPc, now, last>>

(* ------------------------------------------- the driver callback thread *)

\* libuvc invokes the registered callback with a completed frame.
cbInvoke ==
    /\ uvcStreamer_
    /\ drvRunning
    /\ cbPc = "idle"
    /\ cbPc' = "waiting"
    /\ UNCHANGED <<uvcStreamer_, devVars, streamerVars, frameVars, stats_, frameMutex_,
                   drvVars, hostPc, bindPc, now, last, bindLast, cbSinceBind>>

\* The driver delivers at most MaxFrames frames to a connection.
cbEnter ==
    /\ stats_.currentFps < MaxFrames
    /\ cbInvoke

\* A lock that is taken without waiting for its holder.
lockFrameMutex_noWait(who) ==
    /\ frameMutex_' = who

\* A callback that waits until the previous frame has been consumed.
lockFrameMutex_waitsForConsumer(who) ==
    /\ frameMutex_ = "free"
    /\ who = "cb" => ~frameUpdated_
    /\ frameMutex_' = who

\* std::lock_guard<std::mutex> lock(frameMutex_), on behalf of thread who.
lockFrameMutex(who) ==
    /\ frameMutex_ = "free"
    /\ frameMutex_' = who

\* captureFrameCallback acquires the frame lock.
cbLock ==
    /\ cbPc = "waiting"
    /\ lockFrameMutex("cb")
    /\ cbPc' = "locked"
    /\ UNCHANGED <<uvcStreamer_, devVars, streamerVars, frameVars, stats_, drvVars,
                   hostPc, bindPc, now, last, bindLast, cbSinceBind>>

\* captureFrameCallback converts the frame it was handed, marks it and
\* releases the lock.
\* A callback that takes the frame's dimensions and format as the negotiated
\* ones.
cbBody_renegotiates(frame) ==
    /\ cbPc = "locked"
    /\ captureFrameCallback(frame)
    /\ captureFrameWidth_' = frame.width
    /\ captureFrameHeight_' = frame.height
    /\ captureFrameFormat_' = frame.format
    /\ frameMutex_' = "free"
    /\ cbPc' = "idle"
    /\ cbSinceBind' = TRUE
    /\ UNCHANGED <<uvcStreamer_, devVars, uvcContext_, deviceHandle_,
                   isStreamControlNegotiated_, streamHandle_, captureFrameFps_,
                   drvVars, hostPc, bindPc, now, last, bindLast>>

cbBody(frame) ==
    /\ cbPc = "locked"
    /\ captureFrameCallback(frame)
    /\ frameMutex_' = "free"
    /\ cbPc' = "idle"
    /\ cbSinceBind' = TRUE
    /\ UNCHANGED <<uvcStreamer_, devVars, streamerVars, drvVars, hostPc, bindPc, now,
                   last, bindLast>>

(* ------------------------------------------------------ the render thread *)

\* The renderer calls bindFrameToTextures on the live streamer.
bindEnter ==
    /\ uvcStreamer_
    /\ hostPc # "closing"
    /\ bindPc = "idle"
    /\ bindPc' = "waiting"
    /\ UNCHANGED <<uvcStreamer_, devVars, streamerVars, frameVars, stats_, frameMutex_,
                   drvVars, hostPc, cbPc, now, last, bindLast,
                   cbSinceBind>>

\* bindFrameToTextures acquires the frame lock.
bindLock ==
    /\ bindPc = "waiting"
    /\ lockFrameMutex("bind")
    /\ bindPc' = "locked"
    /\ UNCHANGED <<uvcStreamer_, devVars, streamerVars, frameVars, stats_, drvVars,
                   hostPc, cbPc, now, last, bindLast, cbSinceBind>>

\* bindFrameToTextures tests the dirty flag, uploads, and releases the lock.
bindBody ==
    /\ bindPc = "locked"
    /\ LET b == bindFrameToTextures
       IN  /\ frameUpdated_' = b.frameUpdated
           /\ bindLast' = [ret |-> b.ret, upload |-> b.upload]
           /\ cbSinceBind' = IF b.ret THEN FALSE ELSE cbSinceBind
    /\ frameMutex_' = "free"
    /\ bindPc' = "idle"
    /\ UNCHANGED <<uvcStreamer_, devVars, streamerVars, width_, height_, bufferVars,
                   stats_, drvVars, hostPc, cbPc, now, last>>

(* ---------------------------------------------------------------- clock *)

\* The steady clock advances by one second.  Spec and FairSpec hold the clock
\* still: every frame of a connection falls into one stats window.
tick ==
    /\ now < MaxTime
    /\ now' = now + 1
    /\ UNCHANGED <<uvcStreamer_, devVars, streamerVars, frameVars, stats_, frameMutex_,
                   drvVars, hostPc, cbPc, bindPc, last, bindLast,
                   cbSinceBind>>

(* ----------------------------------------------------------------- spec *)

Init ==
    /\ uvcStreamer_ = FALSE
    /\ uvcContext_ = FALSE
    /\ deviceHandle_ = FALSE
    /\ isStreamControlNegotiated_ = FALSE
    /\ streamHandle_ = NULL
    /\ width_ = 0
    /\ height_ = 0
    /\ captureFrameWidth_ = 0
    /\ captureFrameHeight_ = 0
    /\ captureFrameFps_ = 0
    /\ captureFrameFormat_ = FORMAT_UNKNOWN
    /\ stats_ = NoStats
    /\ frameMutex_ = "free"
    /\ frameUpdated_ = FALSE
    /\ plane0_ = EmptyVec
    /\ plane1_ = EmptyVec
    /\ rgbaBuffer_ = EmptyVec
    /\ drvSessions = 0
    /\ drvRunning = FALSE
    /\ drvStopped = FALSE
    /\ drvDevOpen = FALSE
    /\ drvCloses = 0
    /\ hostPc = "idle"
    /\ cbPc = "idle"
    /\ bindPc = "idle"
    /\ now = 0
    /\ last = NoCall
    /\ bindLast = NoBind
    /\ cbSinceBind = FALSE

\* The arguments of a connect call.  The requested format and the result of
\* the stream-open call are read only after a successful negotiation, and no
\* argument is read when a streamer exists.
Connect ==
    \E outcome \in (IF uvcStreamer_ THEN {"ok"} ELSE CtorOutcomes) :
    \E w \in (IF uvcStreamer_ THEN {2} ELSE Widths), h \in Heights, fps \in FpsSet :
    \E fmt \in (IF outcome = "ok" /\ ~uvcStreamer_ THEN WireFormats ELSE {"NV12"}) :
    \E devOk \in (IF outcome = "ok" /\ ~uvcStreamer_ THEN BOOLEAN ELSE {TRUE}) :
        connectUsbVideoStreamingNative(w, h, fps, fmt, outcome, devOk)

ConfigureOutput == \E devOk \in BOOLEAN : callConfigureOutput(devOk)

Start == \E devOk \in BOOLEAN : startUsbVideoStreamingNative(devOk)

\* The frame a callback is handed: any dimensions and any format tag; its
\* bytes are named by the parity of the frames counted so far, so that two
\* frames in a row never carry the same bytes.
Convert ==
    \E frame \in Frames :
        /\ frame.data = 1 + (stats_.currentFps % 2)
        /\ cbBody(frame)

Next ==
    \/ Connect
    \/ ConfigureOutput
    \/ Start
    \/ stopUsbVideoStreamingNative
    \/ stopReturn
    \/ streamingStatsSummaryString
    \/ disconnectUsbVideoStreamingNative
    \/ disconnectReturn
    \/ cbEnter
    \/ cbLock
    \/ Convert
    \/ bindEnter
    \/ bindLock
    \/ bindBody

Spec == Init /\ [][Next]_vars

(* ================================================================ claims *)

HasHandle == {"Configured", "Streaming", "Stopped"}
NoHandle == {"Closed", "NegotiationFailed", "Negotiated"}

\* C1 (as stated): start() succeeds only from Configured; called from any
\* other state - Stopped in particular, after stop() without a new connect() -
\* it returns false and registers no callback (the stream does not start).
C1_StartOnlyFromConfigured ==
    [][Start /\ State # "Configured" =>
          /\ ~last'.ret
          /\ drvRunning' = drvRunning]_vars

\* C2 (as stated): whenever the stream is not Streaming, stop() returns false
\* and issues no stop request to the driver.
C2_StopIssuesNoRequest ==
    [][stopUsbVideoStreamingNative /\ State # "Streaming" =>
          /\ ~last'.ret
          /\ last'.calls = {}]_vars

\* C2 (amended): whenever the stream is not Streaming, stop() returns false
\* and changes neither the object nor the driver's streaming state; it makes
\* no driver call exactly when no stream handle is open, and with an open
\* handle it asks uvc_stream_stop, which refuses.  From Streaming it returns
\* true, ends callback delivery and the state is Stopped.
C2_StopIdempotent ==
    [][stopUsbVideoStreamingNative =>
          IF State # "Streaming"
          THEN /\ ~last'.ret
               /\ UNCHANGED <<uvcStreamer_, streamerVars, frameVars, drvVars,
                              hostPc>>
               /\ last'.calls = (IF State \in NoHandle THEN {}
                                 ELSE {"uvc_stream_stop"})
          ELSE /\ last'.ret
               /\ ~drvRunning'
               /\ State' = "Stopped"]_vars

\* C2 witness: stop() was called twice in a row; the second call, from
\* Stopped, returned false after asking the driver.
C2_Witness ==
    /\ State = "Stopped"
    /\ hostPc = "idle"
    /\ last = [op |-> "stop", ret |-> FALSE, calls |-> {"uvc_stream_stop"}]

\* C3: once a frame has been captured the first bindFrameToTextures returns
\* true, uploads and clears the dirty flag; a bind with no callback completed
\* since the last bind that returned true returns false and uploads nothing.
C3_BindOncePerFrame ==
    [][bindBody =>
          IF cbSinceBind
          THEN /\ bindLast'.ret
               /\ bindLast'.upload.kind # "none"
               /\ ~frameUpdated_'
          ELSE /\ ~bindLast'.ret
               /\ bindLast'.upload = NoUpload
               /\ ~frameUpdated_']_vars

\* C3 witness: a frame was captured and consumed, and the bind after that
\* returned false.
C3_Witness ==
    /\ uvcStreamer_
    /\ stats_.currentFps >= 1
    /\ ~cbSinceBind
    /\ bindPc = "idle"
    /\ ~bindLast.ret

\* C4 (as stated): a callback whose MJPEG frame fails to decode, or whose
\* intermediate frame cannot be allocated, leaves buffers and dirty flag as
\* they were.
C4_DecodeFailureLeavesSetUnchanged ==
    [][\A f \in Frames :
          (f.format = "MJPEG" /\ ~(f.allocOk /\ f.decodeOk) /\ cbBody(f))
              => UNCHANGED <<plane0_, plane1_, rgbaBuffer_, frameUpdated_>>]_vars

\* C5 (as stated): a callback whose frame has a format tag other than NV12,
\* YUYV and MJPEG changes neither the dirty flag, the buffers, the recorded
\* dimensions nor the stats frame counter.
C5_UnknownFormatIsNoOp ==
    [][\A f \in Frames :
          (f.format \notin {"NV12", "YUYV", "MJPEG"} /\ cbBody(f))
              => UNCHANGED <<frameUpdated_, plane0_, plane1_, rgbaBuffer_,
                             width_, height_, stats_>>]_vars

\* C6: after a failed negotiation configureOutput, start and stop return
\* false, make no driver call and change nothing; bindFrameToTextures returns
\* false; and the instance never streams: it stays NegotiationFailed until it
\* is destroyed.
C6_NegotiationFailedIsInert ==
    [][State = "NegotiationFailed" =>
          /\ (ConfigureOutput \/ Start \/ stopUsbVideoStreamingNative) =>
                /\ ~last'.ret
                /\ last'.calls = {}
                /\ UNCHANGED <<uvcStreamer_, streamerVars, frameVars, stats_,
                               drvVars, hostPc>>
          /\ bindBody => ~bindLast'.ret /\ bindLast'.upload = NoUpload
          /\ ~drvRunning /\ ~drvRunning'
          /\ State' \in {"NegotiationFailed", "Closed"}
          /\ State' = "Closed" => disconnectReturn]_vars

\* C6 witness: on a stream whose negotiation failed, start() has returned
\* false and a bind has been made.
C6_Witness ==
    /\ State = "NegotiationFailed"
    /\ deviceHandle_
    /\ last = [op |-> "start", ret |-> FALSE, calls |-> {}]
    /\ bindPc = "locked"

\* C7: configureOutput opens a stream-control session, and the state becomes
\* Configured, only from Negotiated; from Configured, Streaming or Stopped it
\* opens no second session, keeps the stream handle and the state.
C7_ConfigureOnlyFromNegotiated ==
    [][ConfigureOutput =>
          /\ drvSessions' # drvSessions =>
                /\ State = "Negotiated"
                /\ State' = "Configured"
                /\ last'.ret
                /\ drvSessions' = drvSessions + 1
          /\ State # "Negotiated" =>
                /\ State' = State
                /\ UNCHANGED <<streamHandle_, drvSessions>>]_vars

\* C7 witness: configureOutput was called on a streaming stream and the one
\* session and its handle are still there.
C7_Witness ==
    /\ State = "Streaming"
    /\ last.op = "configureOutput"
    /\ ~last.ret
    /\ streamHandle_ # NULL
    /\ drvSessions = 1

\* C8 (as stated): a second connect() on a connected stream returns true.
C8_SecondConnectReportsSuccess ==
    [][Connect /\ State \in HasHandle => last'.ret]_vars

\* C9: the callback and bindFrameToTextures are never both inside their
\* buffer-access sections, and whoever is inside holds the frame lock.
C9_FrameLockExcludes ==
    /\ ~(cbPc = "locked" /\ bindPc = "locked")
    /\ (cbPc = "locked") = (frameMutex_ = "cb")
    /\ (bindPc = "locked") = (frameMutex_ = "bind")

\* C9 witness: the renderer is inside bindFrameToTextures while a callback
\* waits for the lock.
C9_Witness ==
    /\ bindPc = "locked"
    /\ cbPc = "waiting"
    /\ frameUpdated_

\* The buffers a well-formed frame of a supported format is converted into.
Converted(f) ==
    CASE f.format = "NV12" ->
           /\ plane0_' = [size |-> f.width * f.height, data |-> f.data]
           /\ plane1_' = [size |-> (f.width * f.height) \div 2, data |-> f.data]
      [] f.format = "YUYV" ->
           plane0_' = [size |-> f.width * f.height * 2, data |-> f.data]
      [] f.format = "MJPEG" ->
           rgbaBuffer_' = [size |-> f.width * f.height * 4, data |-> f.data]

WellFormed(f) ==
    /\ f.format \in {"NV12", "YUYV", "MJPEG"}
    /\ f.allocOk
    /\ f.decodeOk

\* The frames a device delivers after negotiation: the negotiated format and
\* dimensions, well-formed or (MJPEG) failing to decode.
NegotiatedFrames ==
    {f \in Frames : /\ f.format = captureFrameFormat_
                    /\ f.width = captureFrameWidth_
                    /\ f.height = captureFrameHeight_}

ConvertNegotiated ==
    \E frame \in NegotiatedFrames :
        /\ frame.data = 1 + (stats_.currentFps % 2)
        /\ cbBody(frame)

NextNegotiated ==
    \/ Connect
    \/ ConfigureOutput
    \/ Start
    \/ stopUsbVideoStreamingNative
    \/ stopReturn
    \/ streamingStatsSummaryString
    \/ disconnectUsbVideoStreamingNative
    \/ disconnectReturn
    \/ cbEnter
    \/ cbLock
    \/ ConvertNegotiated
    \/ bindEnter
    \/ bindLock
    \/ bindBody

\* The scheduling the liveness of the callback rests on: a thread that holds
\* the frame lock goes on to release it, and a callback that finds the lock
\* free again and again gets it.
FairSpec ==
    /\ Init
    /\ [][NextNegotiated]_vars
    /\ SF_vars(cbLock)
    /\ WF_vars(ConvertNegotiated)
    /\ WF_vars(bindBody)

C11_NoCallbackAfterStop ==
    [][cbEnter =>
          ~(/\ hostPc = "idle"
            /\ \/ drvStopped
               \/ (last.op = "stop" /\ last.ret))]_vars

\* C11 witness: stop() is running while a callback holds the frame lock.
C11_Witness ==
    /\ hostPc = "stopping"
    /\ last = [op |-> "stop", ret |-> TRUE, calls |-> {"uvc_stream_stop"}]
    /\ cbPc = "locked"
    /\ ~drvRunning

\* C14: the device handle a streamer wrapped is closed exactly once: it is
\* open and unclosed while the streamer lives, closed once when the streamer
\* is gone, and never closed twice.
C14_DeviceHandleClosedOnce ==
    /\ drvCloses <= 1
    /\ (uvcStreamer_ /\ deviceHandle_) => (drvDevOpen /\ drvCloses = 0)
    /\ (uvcStreamer_ /\ ~deviceHandle_) => (~drvDevOpen /\ drvCloses = 0)
    /\ ~uvcStreamer_ => ~drvDevOpen

\* C14 witness: a streamer that held a device handle has just been
\* destroyed by disconnect(); the handle has been closed once.
C14_Witness ==
    /\ ~uvcStreamer_
    /\ drvCloses = 1
    /\ ~drvDevOpen
    /\ hostPc = "idle"
    /\ last = [op |-> "disconnect", ret |-> FALSE, calls |-> {"uvc_close"}]

\* C15: a disconnect() with no stream connected destroys nothing, releases
\* nothing and leaves the 'no stream' state as it is.
C15_DisconnectIdempotent ==
    [][(disconnectUsbVideoStreamingNative /\ ~uvcStreamer_) =>
          /\ ~uvcStreamer_'
          /\ hostPc' = "idle"
          /\ last'.calls = {}
          /\ UNCHANGED <<devVars, drvVars, streamerVars, frameVars, stats_>>]_vars

\* C15 witness: disconnect() was called twice in a row on a stream that had a
\* device handle; the second call made no driver call.
C15_Witness ==
    /\ ~uvcStreamer_
    /\ hostPc = "idle"
    /\ drvCloses = 1
    /\ last = [op |-> "disconnect", ret |-> FALSE, calls |-> {}]

\* C18: start() returns true only on an instance whose negotiation succeeded
\* and on which a configureOutput has opened the stream session; and a
\* stream runs only on such an instance.
C18_StartNeedsNegotiateAndConfigure ==
    /\ [][(Start /\ last'.ret) =>
             /\ isStreamControlNegotiated_
             /\ streamHandle_ # NULL
             /\ drvSessions = 1]_vars
    /\ [](drvRunning =>
             /\ isStreamControlNegotiated_
             /\ streamHandle_ # NULL
             /\ drvSessions = 1)

\* C18 witness: start() has just returned true on a negotiated streamer whose
\* stream configureOutput opened.
C18_Witness ==
    /\ State = "Streaming"
    /\ last = [op |-> "start", ret |-> TRUE, calls |-> {"uvc_stream_start"}]
    /\ isStreamControlNegotiated_
    /\ drvSessions = 1

\* C12: on a started stream, one well-formed frame of the negotiated format
\* and dimensions w x h sets the dirty flag and leaves the buffers at the
\* format's sizes: NV12 plane0 = w*h and plane1 = w*h/2, YUYV plane0 = w*h*2,
\* MJPEG an RGBA buffer of w*h*4 bytes.
C12_FrameSizesBuffers ==
    [][\A f \in NegotiatedFrames :
          (WellFormed(f) /\ cbBody(f)) =>
              LET w == captureFrameWidth_
                  h == captureFrameHeight_
              IN  /\ frameUpdated_'
                  /\ captureFrameFormat_ = "NV12" =>
                         /\ plane0_'.size = w * h
                         /\ plane1_'.size = (w * h) \div 2
                  /\ captureFrameFormat_ = "YUYV" => plane0_'.size = w * h * 2
                  /\ captureFrameFormat_ = "MJPEG" =>
                         rgbaBuffer_'.size = w * h * 4]_vars

\* C12 witness: the first frame of an MJPEG stream, of the negotiated size,
\* has been decoded into the RGBA buffer, which the constructor left empty.
C12_Witness ==
    /\ State = "Streaming"
    /\ captureFrameFormat_ = "MJPEG"
    /\ stats_.currentFps = 1
    /\ cbPc = "idle"
    /\ frameUpdated_
    /\ width_ = captureFrameWidth_
    /\ height_ = captureFrameHeight_
    /\ rgbaBuffer_ = [size |-> captureFrameWidth_ * captureFrameHeight_ * 4,
                      data |-> 1]

\* C17: while a negotiated streamer lives, no operation changes the negotiated
\* width, height, frame rate or wire format, nor the value of getFormat();
\* frames of other dimensions or formats included.
C17_NegotiatedParametersImmutable ==
    [][(uvcStreamer_ /\ isStreamControlNegotiated_ /\ uvcStreamer_') =>
          /\ UNCHANGED <<captureFrameWidth_, captureFrameHeight_,
                         captureFrameFps_, captureFrameFormat_>>
          /\ isStreamControlNegotiated_'
          /\ getFormat' = getFormat]_vars

\* C17 witness: an NV12 stream has decoded an MJPEG frame of another width,
\* was stopped, and its stats summary has been read.
C17_Witness ==
    /\ State = "Stopped"
    /\ captureFrameFormat_ = "NV12"
    /\ getFormat = 1
    /\ width_ # captureFrameWidth_
    /\ rgbaBuffer_.data # 0
    /\ last = [op |-> "stats", ret |-> TRUE, calls |-> {}]

\* C19: whenever the frame lock is free, the dirty flag is set exactly when a
\* callback has completed since the last bindFrameToTextures that returned
\* true (or since the streamer was created); so bindFrameToTextures returns
\* true exactly when there is such a callback.
C19_DirtyIffCallbackSinceBind ==
    /\ [](frameMutex_ = "free" => (frameUpdated_ <=> cbSinceBind))
    /\ [][bindBody => (bindLast'.ret <=> cbSinceBind)]_vars

\* C19 witness: two callbacks have completed, a bind has since returned true
\* and found the flag set once; the flag is clear again.
C19_Witness ==
    /\ frameMutex_ = "free"
    /\ stats_.currentFps = 2
    /\ bindLast.ret
    /\ bindPc = "idle"
    /\ cbPc = "idle"
    /\ ~frameUpdated_
    /\ ~cbSinceBind

(* A device that keeps to the negotiated wire format: every frame carries
   captureFrameFormat_, with any width and any height, odd ones included. *)
SameFormatFrames ==
    {[f EXCEPT !.height = h] : f \in {g \in Frames : g.format = captureFrameFormat_},
                              h \in Widths}

ConvertSameFormat ==
    \E frame \in SameFormatFrames :
        /\ frame.data = 1 + (stats_.currentFps % 2)
        /\ cbBody(frame)

NextSameFormat ==
    \/ Connect
    \/ ConfigureOutput
    \/ Start
    \/ stopUsbVideoStreamingNative
    \/ stopReturn
    \/ streamingStatsSummaryString
    \/ disconnectUsbVideoStreamingNative
    \/ disconnectReturn
    \/ cbEnter
    \/ cbLock
    \/ ConvertSameFormat
    \/ bindEnter
    \/ bindLock
    \/ bindBody

SpecSameFormat == Init /\ [][NextSameFormat]_vars

\* C20: when every frame carries the negotiated wire format, an upload by
\* bindFrameToTextures reads from each buffer no more bytes than the buffer
\* holds, whatever the dimensions of the frames were.
C20_UploadWithinBuffers ==
    [][(bindBody /\ bindLast'.ret) =>
          /\ bindLast'.upload = textureUpload
          /\ bindLast'.upload.plane0 <= plane0_.size
          /\ bindLast'.upload.plane1 <= plane1_.size
          /\ bindLast'.upload.rgba <= rgbaBuffer_.size]_vars

\* C20 witness: an NV12 stream delivered a frame of odd width and height,
\* other than the negotiated ones, and it has been uploaded from both planes.
C20_Witness ==
    /\ captureFrameFormat_ = "NV12"
    /\ width_ # captureFrameWidth_
    /\ width_ % 2 = 1
    /\ height_ % 2 = 1
    /\ ~frameUpdated_
    /\ bindLast.ret
    /\ bindLast.upload.kind = "NV12"
    /\ bindLast.upload.plane0 = plane0_.size
    /\ bindLast.upload.plane1 = (width_ \div 2) * (height_ \div 2) * 2
    /\ plane1_.size = (width_ * height_) \div 2

(* The stats tracker over a running clock: one YUYV stream is connected and
   started, the driver delivers frames of the negotiated format and size
   without limit, and the steady clock advances between them. *)
StatsConnect ==
    /\ ~uvcStreamer_
    /\ \E h \in Heights, fps \in FpsSet :
          connectUsbVideoStreamingNative(MaxW, h, fps, "YUYV", "ok", TRUE)

StatsStart ==
    /\ ~drvRunning
    /\ Start

NextStats ==
    \/ StatsConnect
    \/ StatsStart
    \/ cbInvoke
    \/ cbLock
    \/ ConvertNegotiated
    \/ tick

SpecStats == Init /\ [][NextStats]_vars

\* A callback completes with the window that began at t0 over / still open.
RollOver == ConvertNegotiated /\ now - stats_.t0 >= OneSecond
InWindow == ConvertNegotiated /\ now - stats_.t0 < OneSecond

\* C13 (as stated): when N frames were recorded inside a window and the clock
\* has passed the window's end, the value published at the roll-over is N,
\* the window counter is reset to 0, and the published value changes at most
\* once per elapsed second.
C13_RollOverPublishesWindowCount ==
    /\ [][RollOver => /\ stats_'.fps = stats_.currentFps
                      /\ stats_'.currentFps = 0]_vars
    /\ [][stats_'.fps # stats_.fps => RollOver /\ stats_'.t0 = now]_vars

\* C16 (as stated): between two roll-overs every recorded frame leaves the
\* window counter strictly greater than it was, past 255 frames as well.
C16_WindowCounterIncreases ==
    [][InWindow => stats_'.currentFps > stats_.currentFps]_vars

====
